---- MODULE Spec2Model ----
(***************************************************************************)
(* scenario_generation/main.py: a linear export script.  It derives an     *)
(* output directory from its two arguments, loads a configuration, opens   *)
(* a chunked scene store, hands the scene indices to the extraction        *)
(* routine, and writes the returned arrays to data.h5 and their metadata   *)
(* to info.pkl.  One action per statement; the filesystem survives from    *)
(* one run of the script to the next.                                      *)
(***************************************************************************)
EXTENDS Integers, Sequences, FiniteSets, TLC

(***************************************************************************)
(* Python strings are sequences of characters, so that concatenation,      *)
(* os.path.join, Path.with_suffix and the `in` substring test are computed *)
(* on characters.                                                          *)
(***************************************************************************)
AgentsWord == <<"a","g","e","n","t","s">>

prefix == <<"l","5","k","i","t","_","d","a","t","a","_">>

save_folder == <<"A","V","S","G","_","D","a","t","a">>

config_sample == <<"c","o","n","f","i","g","_","s","a","m","p","l","e">>

config_full == <<"c","o","n","f","i","g","_","f","u","l","l">>

train_data_loader == <<"t","r","a","i","n","_","d","a","t","a","_","l","o","a","d","e","r">>

val_data_loader == <<"v","a","l","_","d","a","t","a","_","l","o","a","d","e","r">>

InfoName == <<"i","n","f","o">>

DataName == <<"d","a","t","a">>

PklSuffix == <<".","p","k","l">>

H5Suffix == <<".","h","5">>

\* names the extraction routine gives its arrays
agents_feat == <<"a","g","e","n","t","s","_","f","e","a","t">>

n_agents == <<"n","_","a","g","e","n","t","s">>

agent_types == <<"a","g","e","n","t","_","t","y","p","e","s">>

map_points == <<"m","a","p","_","p","o","i","n","t","s">>

(***************************************************************************)
(* Bounds of the model.                                                    *)
(***************************************************************************)
MaxRuns == 2

MaxScenes == 5

RerunScenes == 1

MaxMats == 2

(***************************************************************************)
(* Library functions the script calls.                                     *)
(***************************************************************************)
\* sub in s  (Python str.__contains__)
Contains(sub, s) ==
    \E i \in 1..(Len(s) - Len(sub) + 1) : SubSeq(s, i, i + Len(sub) - 1) = sub

\* index of the last occurrence of character c in s, 0 when there is none
LastIndex(c, s) ==
    IF \E i \in 1..Len(s) : s[i] = c
    THEN CHOOSE i \in 1..Len(s) : s[i] = c /\ \A j \in (i+1)..Len(s) : s[j] # c
    ELSE 0

\* os.path.dirname
Dirname(p) ==
    IF LastIndex("/", p) = 0 THEN <<>> ELSE SubSeq(p, 1, LastIndex("/", p) - 1)

\* os.path.basename
Basename(p) == SubSeq(p, LastIndex("/", p) + 1, Len(p))

\* os.path.join(a, b)
Join(a, b) ==
    IF b # <<>> /\ b[1] = "/" THEN b
    ELSE IF a = <<>> \/ a[Len(a)] = "/" THEN a \o b
    ELSE a \o <<"/">> \o b

\* pathlib.PurePath.with_suffix: the last component loses its suffix (from
\* its last dot, unless the dot leads the name) and gains suf
WithSuffix(p, suf) ==
    LET name == Basename(p)
        dot  == LastIndex(".", name)
        stem == IF dot > 1 THEN SubSeq(name, 1, dot - 1) ELSE name
    IN  SubSeq(p, 1, Len(p) - Len(name)) \o stem \o suf

\* os.path.exists on the directories of the model
OsPathExists(ds, p) == p \in ds

\* os.mkdir: the directory must not exist and its parent must
OsMkdir(ds, p) ==
    IF p \in ds THEN [err |-> "FileExistsError", dirs |-> ds]
    ELSE IF Dirname(p) # <<>> /\ Dirname(p) \notin ds
         THEN [err |-> "FileNotFoundError", dirs |-> ds]
    ELSE [err |-> "none", dirs |-> ds \cup {p}]

\* h5py.File(path, mode): 'w' creates the container and truncates an existing
\* one, 'a' creates it and keeps the datasets of an existing one
H5File(files, ds, path, mode) ==
    IF Dirname(path) # <<>> /\ Dirname(path) \notin ds
    THEN [err |-> "FileNotFoundError", files |-> files]
    ELSE IF mode = "a" /\ path \in DOMAIN files THEN [err |-> "none", files |-> files]
    ELSE [err |-> "none", files |-> (path :> <<>>) @@ files]

\* h5f.create_dataset(name, data=data): a name in use is an error; the
\* dataset takes the shape and the dtype of the data it is given
H5CreateDataset(file, name, data) ==
    IF name \in DOMAIN file THEN [err |-> "ValueError", file |-> file]
    ELSE [err  |-> "none",
          file |-> (name :> [shape |-> data.shape, dtype |-> data.dtype]) @@ file]

\* open(path, mode): 'wb' creates the file and truncates an existing one,
\* 'ab' creates it and keeps what an existing one holds
PyOpen(files, ds, path, mode) ==
    IF Dirname(path) # <<>> /\ Dirname(path) \notin ds
    THEN [err |-> "FileNotFoundError", files |-> files]
    ELSE IF mode = "ab" /\ path \in DOMAIN files THEN [err |-> "none", files |-> files]
    ELSE [err |-> "none", files |-> (path :> <<>>) @@ files]

\* pickle.dump(obj, fid): the object is appended to the open file
PickleDump(files, path, obj) == [files EXCEPT ![path] = Append(@, obj)]

(***************************************************************************)
(* The environment of a run: the configuration files under configs/, the   *)
(* values the extraction routine can return, the outcome of git.           *)
(***************************************************************************)
\* configs/<name>.yaml as load_config_data returns it: source name -> block;
\* both files define train_data_loader and neither val_data_loader
ConfigFiles ==
    (config_sample :> (train_data_loader :> [key |-> "scenes/sample.zarr"]))
    @@ (config_full :> (train_data_loader :> [key |-> "scenes/train.zarr"]))

ConfigNames == {config_sample, config_full}

SourceNames == {train_data_loader, val_data_loader}

Shapes == {<<8, 5>>, <<8>>}

Dtypes == {"float32", "bool"}

\* array-like values: .data exposes the shape and the dtype of the array
ArrayLikes(shapes, dtypes) ==
    {[shape |-> s, dtype |-> d, data |-> [shape |-> s, dtype |-> d]] :
        s \in shapes, d \in dtypes}

\* every mapping of at most k of the names to array-like values
ExtractionOutputs(names, arrays, k) ==
    UNION {[S -> arrays] : S \in {T \in SUBSET names : Cardinality(T) <= k}}

GitVersion == "1a2b3c4"

(***************************************************************************)
(* The statements of the script, in program order.                         *)
(***************************************************************************)
\* the dataset root is read only after the output directories are set up
Program_lateRead ==
    << "mkdir_save_folder", "mkdir_save_dir", "read_dataset_path", "load_config",
       "lookup_source", "open_store", "scene_indices", "extract",
       "assign_n_scenes", "git_describe", "open_h5", "write_mats", "close_h5",
       "open_pkl", "dump_pkl", "print_summary" >>

\* git is queried where its result is used, after the container is written
Program_lateGit ==
    << "read_dataset_path", "mkdir_save_folder", "mkdir_save_dir", "load_config",
       "lookup_source", "open_store", "scene_indices", "extract",
       "assign_n_scenes", "open_h5", "write_mats", "close_h5", "git_describe",
       "open_pkl", "dump_pkl", "print_summary" >>

\* the metadata file is written before the container
Program_pklFirst ==
    << "read_dataset_path", "mkdir_save_folder", "mkdir_save_dir", "load_config",
       "lookup_source", "open_store", "scene_indices", "extract",
       "assign_n_scenes", "git_describe", "open_pkl", "dump_pkl", "open_h5",
       "write_mats", "close_h5", "print_summary" >>

Program ==
    << "read_dataset_path",   \* line 30
       "mkdir_save_folder",   \* lines 50-51
       "mkdir_save_dir",      \* lines 53-59
       "load_config",         \* lines 65-67
       "lookup_source",       \* line 69
       "open_store",          \* lines 71-72
       "scene_indices",       \* lines 73-85
       "extract",             \* lines 88-90
       "assign_n_scenes",     \* line 92
       "git_describe",        \* line 93
       "open_h5",             \* lines 95-96
       "write_mats",          \* lines 97-105
       "close_h5",            \* end of the with block of line 96
       "open_pkl",            \* line 107
       "dump_pkl",            \* lines 108-109
       "print_summary" >>     \* line 111

\* the statement after statement l
After(l) ==
    LET i == CHOOSE k \in 1..Len(Program) : Program[k] = l
    IN  IF i = Len(Program) THEN "done" ELSE Program[i + 1]

(***************************************************************************)
(* Expressions of the script.                                              *)
(***************************************************************************)
\* line 28
SaveDirName(a) == prefix \o a.config_file_name \o <<"_">> \o a.source_name

\* line 48
SaveDirPath(a) == Join(save_folder, SaveDirName(a))

\* line 58
SaveInfoFilePath(dir) == WithSuffix(Join(dir, InfoName), PklSuffix)

\* line 59
SaveDataFilePath(dir) == WithSuffix(Join(dir, DataName), H5Suffix)

\* os.mkdir without the test of line 53
SetupSaveDir_noCheck(ds, path) ==
    [err |-> OsMkdir(ds, path).err, dirs |-> OsMkdir(ds, path).dirs, warned |-> FALSE]

\* lines 53-56
SetupSaveDir(ds, path) ==
    IF OsPathExists(ds, path)
    THEN [err |-> "none", dirs |-> ds, warned |-> TRUE]
    ELSE [err |-> OsMkdir(ds, path).err, dirs |-> OsMkdir(ds, path).dirs,
          warned |-> FALSE]

\* cfg.get(args.source_name, default): an absent key is no error
LookupSource_default(c, source_name) ==
    IF source_name \in DOMAIN c
    THEN [err |-> "none", val |-> c[source_name]]
    ELSE [err |-> "none", val |-> [key |-> "scenes/sample.zarr"]]

\* line 69: cfg[args.source_name]
LookupSource(c, source_name) ==
    IF source_name \in DOMAIN c
    THEN [err |-> "none", val |-> c[source_name]]
    ELSE [err |-> "KeyError", val |-> [key |-> ""]]

\* list(range(1, n_scenes))
SceneIndices_fromOne(n) == [i \in 1..(n - 1) |-> i]

\* line 85
SceneIndices(n) == [i \in 1..n |-> i - 1]

\* h5py.File(save_data_file_path, 'a')
OpenDataFile_append(files, ds, path) == H5File(files, ds, path, "a")

\* line 96
OpenDataFile(files, ds, path) == H5File(files, ds, path, "w")

\* var_name.startswith('agents')
Entity_startswith(var_name) ==
    IF Len(var_name) >= Len(AgentsWord)
       /\ SubSeq(var_name, 1, Len(AgentsWord)) = AgentsWord
    THEN "agents" ELSE "map"

\* lines 99-102
Entity(var_name) == IF Contains(AgentsWord, var_name) THEN "agents" ELSE "map"

\* saved_mats_info = {var_name: {...}}: the mapping is replaced, not extended
RecordMat_replace(info, var_name, var) ==
    var_name :> [dtype |-> var.dtype, shape |-> var.shape,
                 entity |-> IF Contains(AgentsWord, var_name) THEN "agents" ELSE "map"]

\* lines 103-105
RecordMat(info, var_name, var) ==
    (var_name :> [dtype |-> var.dtype, shape |-> var.shape,
                  entity |-> Entity(var_name)]) @@ info

\* line 107
OpenInfoFile(files, ds, path) == PyOpen(files, ds, path, "wb")

\* line 108: the pickled object
InfoObject(props, info, version) ==
    [dataset_props |-> props, saved_mats_info |-> info, git_version |-> version]

\* the two counts printed in each other's place
SummaryLine_swapped(n, indices, path) ==
    [valid |-> Len(indices), total |-> n, path |-> path]

\* line 111
SummaryLine(n, indices, path) == [valid |-> n, total |-> Len(indices), path |-> path]

(***************************************************************************)
(* The extraction routine, extract_scenario_dataset.process_scenes_data:   *)
(* it returns a mapping of named arrays and a properties mapping whose     *)
(* 'n_scenes' is the number of submitted scenes that passed filtering.     *)
(***************************************************************************)
ProcessScenesData(indices, outputs) ==
    {[saved_mats |-> m, dataset_props |-> [n_scenes |-> k]] :
        m \in outputs, k \in 0..Len(indices)}

(***************************************************************************)
(* State.                                                                  *)
(***************************************************************************)
VARIABLES
    runs,             \* number of runs of the script started so far
    pc,               \* "start", the statement to execute, "done" or "aborted"
    executed,         \* statements this run has completed
    abortAt,          \* the statement at which this run was aborted
    error,            \* the exception that aborted it
    dataset_dir_txt,  \* ../dataset_dir.txt exists
    dirs,             \* the directories that exist
    h5files,          \* path -> datasets of the container (name -> shape, dtype)
    pklfiles,         \* path -> objects pickled into the file
    fs0,              \* dirs, h5files, pklfiles as this run found them
    touched,          \* files this run has created, truncated or written
    pending,          \* names the loop of line 97 has still to visit
    args,             \* args.config_file_name, args.source_name
    dataset_path,
    save_dir_path,
    save_info_file_path,
    save_data_file_path,
    cfg,
    dataset_cfg,
    dataset_zarr,     \* the opened store: its key and its number of scenes
    n_scenes,
    scene_indices,
    saved_mats,
    dataset_props,
    git_version,
    saved_mats_info,
    warned,           \* line 54 printed its warning
    summary,          \* what line 111 printed
    seen              \* <<args, save_dir_path>> of every path setup so far

fsv    == <<dirs, h5files, pklfiles>>

ctl    == <<runs, pc, executed, abortAt, error>>

locals == <<args, dataset_path, save_dir_path, save_info_file_path,
            save_data_file_path, cfg, dataset_cfg, dataset_zarr,
            n_scenes, scene_indices, saved_mats, dataset_props, git_version,
            saved_mats_info, warned, summary>>

vars   == <<ctl, dataset_dir_txt, fsv, fs0, touched, pending, locals, seen>>

NoArgs == [config_file_name |-> <<>>, source_name |-> <<>>]

Init ==
    /\ runs = 0
    /\ pc = "start"
    /\ executed = {}
    /\ abortAt = "none"
    /\ error = "none"
    /\ dataset_dir_txt \in BOOLEAN
    /\ dirs \in {{}, {save_folder}}
    /\ h5files = <<>>
    /\ pklfiles = <<>>
    /\ fs0 = [dirs |-> dirs, h5files |-> <<>>, pklfiles |-> <<>>]
    /\ touched = {}
    /\ pending = {}
    /\ args = NoArgs
    /\ dataset_path = ""
    /\ save_dir_path = <<>>
    /\ save_info_file_path = <<>>
    /\ save_data_file_path = <<>>
    /\ cfg = <<>>
    /\ dataset_cfg = [key |-> ""]
    /\ dataset_zarr = [key |-> "", scenes |-> 0]
    /\ n_scenes = 0
    /\ scene_indices = <<>>
    /\ saved_mats = <<>>
    /\ dataset_props = [n_scenes |-> 0]
    /\ git_version = ""
    /\ saved_mats_info = <<>>
    /\ warned = FALSE
    /\ summary = <<>>
    /\ seen = {}

\* statement l has run: on to the next one
Step(l) ==
    /\ pc' = After(l)
    /\ executed' = executed \cup {l}
    /\ UNCHANGED <<runs, abortAt, error>>

\* an uncaught exception e ends the run
Raise(e) ==
    /\ pc' = "aborted"
    /\ abortAt' = pc
    /\ error' = e
    /\ UNCHANGED <<runs, executed>>

(***************************************************************************)
(* Lines 16-28: the script is started, on whatever an earlier run left.    *)
(***************************************************************************)
StartRun(maxRuns) ==
    /\ pc \in {"start", "done", "aborted"}
    /\ runs < maxRuns
    /\ \E c \in ConfigNames, s \in SourceNames :
          args' = [config_file_name |-> c, source_name |-> s]
    /\ dataset_dir_txt' \in BOOLEAN
    /\ runs' = runs + 1
    /\ pc' = Program[1]
    /\ executed' = {}
    /\ abortAt' = "none"
    /\ error' = "none"
    /\ fs0' = [dirs |-> dirs, h5files |-> h5files, pklfiles |-> pklfiles]
    /\ touched' = {}
    /\ pending' = {}
    /\ dataset_path' = ""
    /\ save_dir_path' = <<>>
    /\ save_info_file_path' = <<>>
    /\ save_data_file_path' = <<>>
    /\ cfg' = <<>>
    /\ dataset_cfg' = [key |-> ""]
    /\ dataset_zarr' = [key |-> "", scenes |-> 0]
    /\ n_scenes' = 0
    /\ scene_indices' = <<>>
    /\ saved_mats' = <<>>
    /\ dataset_props' = [n_scenes |-> 0]
    /\ git_version' = ""
    /\ saved_mats_info' = <<>>
    /\ warned' = FALSE
    /\ summary' = <<>>
    /\ UNCHANGED <<fsv, seen>>

\* line 30
ReadDatasetPath ==
    /\ pc = "read_dataset_path"
    /\ IF dataset_dir_txt
       THEN /\ dataset_path' = "/data/l5kit"
            /\ Step("read_dataset_path")
       ELSE /\ Raise("FileNotFoundError")
            /\ UNCHANGED dataset_path
    /\ UNCHANGED <<dataset_dir_txt, fsv, fs0, touched, pending, seen, args,
                   save_dir_path, save_info_file_path, save_data_file_path,
                   cfg, dataset_cfg, dataset_zarr, n_scenes,
                   scene_indices, saved_mats, dataset_props, git_version,
                   saved_mats_info, warned, summary>>

\* lines 47-51
MkdirSaveFolder ==
    /\ pc = "mkdir_save_folder"
    /\ save_dir_path' = SaveDirPath(args)
    /\ IF ~OsPathExists(dirs, save_folder)
       THEN IF OsMkdir(dirs, save_folder).err = "none"
            THEN /\ dirs' = OsMkdir(dirs, save_folder).dirs
                 /\ Step("mkdir_save_folder")
            ELSE /\ Raise(OsMkdir(dirs, save_folder).err)
                 /\ UNCHANGED dirs
       ELSE /\ Step("mkdir_save_folder")
            /\ UNCHANGED dirs
    /\ UNCHANGED <<dataset_dir_txt, h5files, pklfiles, fs0, touched, pending, seen, args,
                   dataset_path, save_info_file_path, save_data_file_path,
                   cfg, dataset_cfg, dataset_zarr, n_scenes,
                   scene_indices, saved_mats, dataset_props, git_version,
                   saved_mats_info, warned, summary>>

\* lines 53-59
MkdirSaveDir ==
    /\ pc = "mkdir_save_dir"
    /\ LET r == SetupSaveDir(dirs, save_dir_path)
       IN  IF r.err = "none"
           THEN /\ dirs' = r.dirs
                /\ warned' = r.warned
                /\ seen' = seen \cup {<<args, save_dir_path>>}
                /\ save_info_file_path' = SaveInfoFilePath(save_dir_path)
                /\ save_data_file_path' = SaveDataFilePath(save_dir_path)
                /\ Step("mkdir_save_dir")
           ELSE /\ Raise(r.err)
                /\ UNCHANGED <<dirs, warned, seen, save_info_file_path,
                               save_data_file_path>>
    /\ UNCHANGED <<dataset_dir_txt, h5files, pklfiles, fs0, touched, pending, args,
                   dataset_path, save_dir_path, cfg, dataset_cfg, dataset_zarr,
                   n_scenes, scene_indices, saved_mats, dataset_props,
                   git_version, saved_mats_info, summary>>

\* lines 65-67
LoadConfig ==
    /\ pc = "load_config"
    /\ IF args.config_file_name \in DOMAIN ConfigFiles
       THEN /\ cfg' = ConfigFiles[args.config_file_name]
            /\ Step("load_config")
       ELSE /\ Raise("FileNotFoundError")
            /\ UNCHANGED cfg
    /\ UNCHANGED <<dataset_dir_txt, fsv, fs0, touched, pending, seen, args,
                   dataset_path, save_dir_path, save_info_file_path,
                   save_data_file_path, dataset_cfg, dataset_zarr,
                   n_scenes, scene_indices, saved_mats, dataset_props,
                   git_version, saved_mats_info, warned, summary>>

\* line 69
LookupSourceName ==
    /\ pc = "lookup_source"
    /\ LET r == LookupSource(cfg, args.source_name)
       IN  IF r.err = "none"
           THEN /\ dataset_cfg' = r.val
                /\ Step("lookup_source")
           ELSE /\ Raise(r.err)
                /\ UNCHANGED dataset_cfg
    /\ UNCHANGED <<dataset_dir_txt, fsv, fs0, touched, pending, seen, args,
                   dataset_path, save_dir_path, save_info_file_path,
                   save_data_file_path, cfg, dataset_zarr, n_scenes,
                   scene_indices, saved_mats, dataset_props, git_version,
                   saved_mats_info, warned, summary>>

\* lines 71-72: the store of dataset_cfg["key"] holds one of counts scenes
OpenStore(counts) ==
    /\ pc = "open_store"
    /\ \E n \in counts :
          /\ dataset_zarr' = [key |-> dataset_cfg.key, scenes |-> n]
          /\ n_scenes' = n
    /\ Step("open_store")
    /\ UNCHANGED <<dataset_dir_txt, fsv, fs0, touched, pending, seen, args,
                   dataset_path, save_dir_path, save_info_file_path,
                   save_data_file_path, cfg, dataset_cfg,
                   scene_indices, saved_mats, dataset_props, git_version,
                   saved_mats_info, warned, summary>>

\* lines 73-85
MakeSceneIndices ==
    /\ pc = "scene_indices"
    /\ scene_indices' = SceneIndices(n_scenes)
    /\ Step("scene_indices")
    /\ UNCHANGED <<dataset_dir_txt, fsv, fs0, touched, pending, seen, args,
                   dataset_path, save_dir_path, save_info_file_path,
                   save_data_file_path, cfg, dataset_cfg, dataset_zarr,
                   n_scenes, saved_mats, dataset_props, git_version,
                   saved_mats_info, warned, summary>>

\* lines 88-90
Extract(outputs) ==
    /\ pc = "extract"
    /\ \E r \in ProcessScenesData(scene_indices, outputs) :
          /\ saved_mats' = r.saved_mats
          /\ dataset_props' = r.dataset_props
    /\ Step("extract")
    /\ UNCHANGED <<dataset_dir_txt, fsv, fs0, touched, pending, seen, args,
                   dataset_path, save_dir_path, save_info_file_path,
                   save_data_file_path, cfg, dataset_cfg, dataset_zarr,
                   n_scenes, scene_indices, git_version, saved_mats_info,
                   warned, summary>>

\* line 92
AssignNScenes ==
    /\ pc = "assign_n_scenes"
    /\ n_scenes' = dataset_props.n_scenes
    /\ Step("assign_n_scenes")
    /\ UNCHANGED <<dataset_dir_txt, fsv, fs0, touched, pending, seen, args,
                   dataset_path, save_dir_path, save_info_file_path,
                   save_data_file_path, cfg, dataset_cfg, dataset_zarr,
                   scene_indices, saved_mats, dataset_props, git_version,
                   saved_mats_info, warned, summary>>

\* line 93: check_output raises when git exits with an error
GitDescribe ==
    /\ pc = "git_describe"
    /\ \/ /\ git_version' = GitVersion
          /\ Step("git_describe")
       \/ /\ Raise("CalledProcessError")
          /\ UNCHANGED git_version
    /\ UNCHANGED <<dataset_dir_txt, fsv, fs0, touched, pending, seen, args,
                   dataset_path, save_dir_path, save_info_file_path,
                   save_data_file_path, cfg, dataset_cfg, dataset_zarr,
                   n_scenes, scene_indices, saved_mats, dataset_props,
                   saved_mats_info, warned, summary>>

\* lines 95-96, and the for statement of line 97 taking the items
OpenH5 ==
    /\ pc = "open_h5"
    /\ LET r == OpenDataFile(h5files, dirs, save_data_file_path)
       IN  IF r.err = "none"
           THEN /\ h5files' = r.files
                /\ touched' = touched \cup {save_data_file_path}
                /\ saved_mats_info' = <<>>
                /\ pending' = DOMAIN saved_mats
                /\ Step("open_h5")
           ELSE /\ Raise(r.err)
                /\ UNCHANGED <<h5files, touched, saved_mats_info, pending>>
    /\ UNCHANGED <<dataset_dir_txt, dirs, pklfiles, fs0, seen, args,
                   dataset_path, save_dir_path, save_info_file_path,
                   save_data_file_path, cfg, dataset_cfg, dataset_zarr,
                   n_scenes, scene_indices, saved_mats, dataset_props,
                   git_version, warned, summary>>

\* lines 97-105: one pass of the loop body, or the loop's exit
WriteMats ==
    /\ pc = "write_mats"
    /\ IF pending = {}
       THEN /\ Step("write_mats")
            /\ UNCHANGED <<h5files, saved_mats_info, pending>>
       ELSE \E var_name \in pending :
               LET path == save_data_file_path
                   var  == saved_mats[var_name]
                   r    == H5CreateDataset(h5files[path], var_name, var.data)
               IN  IF r.err = "none"
                   THEN /\ h5files' = [h5files EXCEPT ![path] = r.file]
                        /\ saved_mats_info' = RecordMat(saved_mats_info, var_name, var)
                        /\ pending' = pending \ {var_name}
                        /\ UNCHANGED ctl
                   ELSE /\ Raise(r.err)
                        /\ UNCHANGED <<h5files, saved_mats_info, pending>>
    /\ UNCHANGED <<dataset_dir_txt, dirs, pklfiles, fs0, touched, seen, args,
                   dataset_path, save_dir_path, save_info_file_path,
                   save_data_file_path, cfg, dataset_cfg, dataset_zarr,
                   n_scenes, scene_indices, saved_mats, dataset_props,
                   git_version, warned, summary>>

\* the with block of line 96 is left: the container is closed
CloseH5 ==
    /\ pc = "close_h5"
    /\ Step("close_h5")
    /\ UNCHANGED <<dataset_dir_txt, fsv, fs0, touched, pending, seen, locals>>

\* line 107
OpenPkl ==
    /\ pc = "open_pkl"
    /\ LET r == OpenInfoFile(pklfiles, dirs, save_info_file_path)
       IN  IF r.err = "none"
           THEN /\ pklfiles' = r.files
                /\ touched' = touched \cup {save_info_file_path}
                /\ Step("open_pkl")
           ELSE /\ Raise(r.err)
                /\ UNCHANGED <<pklfiles, touched>>
    /\ UNCHANGED <<dataset_dir_txt, dirs, h5files, fs0, pending, seen, locals>>

\* lines 108-109
DumpPkl ==
    /\ pc = "dump_pkl"
    /\ pklfiles' = PickleDump(pklfiles, save_info_file_path,
                              InfoObject(dataset_props, saved_mats_info, git_version))
    /\ Step("dump_pkl")
    /\ UNCHANGED <<dataset_dir_txt, dirs, h5files, fs0, touched, pending, seen,
                   locals>>

\* line 111
PrintSummary ==
    /\ pc = "print_summary"
    /\ summary' = <<SummaryLine(n_scenes, scene_indices, save_dir_path)>>
    /\ Step("print_summary")
    /\ UNCHANGED <<dataset_dir_txt, fsv, fs0, touched, pending, seen, args,
                   dataset_path, save_dir_path, save_info_file_path,
                   save_data_file_path, cfg, dataset_cfg, dataset_zarr,
                   n_scenes, scene_indices, saved_mats, dataset_props,
                   git_version, saved_mats_info, warned>>

\* the run is interrupted (KeyboardInterrupt) before its next statement; a
\* container that is open is closed by its with block, holding what was written
Interrupt ==
    /\ pc \in {Program[i] : i \in 1..Len(Program)}
    /\ Raise("KeyboardInterrupt")
    /\ UNCHANGED <<dataset_dir_txt, fsv, fs0, touched, pending, seen, locals>>

(***************************************************************************)
(* Specifications.  Spec: the script is run again and again on the same    *)
(* filesystem, each run on a small store with a small extraction output.   *)
(* SpecRun: one run, on a store of up to MaxScenes scenes, with every      *)
(* extraction output of up to MaxMats arrays.                              *)
(***************************************************************************)
RerunOutputs ==
    ExtractionOutputs({agents_feat, map_points}, ArrayLikes({<<8>>}, {"float32"}), MaxMats)

RunOutputs ==
    ExtractionOutputs({agents_feat, n_agents, agent_types},
                      ArrayLikes(Shapes, Dtypes), MaxMats)

Statements ==
    \/ ReadDatasetPath
    \/ MkdirSaveFolder
    \/ MkdirSaveDir
    \/ LoadConfig
    \/ LookupSourceName
    \/ MakeSceneIndices
    \/ AssignNScenes
    \/ GitDescribe
    \/ OpenH5
    \/ WriteMats
    \/ CloseH5
    \/ OpenPkl
    \/ DumpPkl
    \/ PrintSummary
    \/ Interrupt

Next ==
    \/ StartRun(MaxRuns)
    \/ OpenStore(0..RerunScenes)
    \/ Extract(RerunOutputs)
    \/ Statements

Spec == Init /\ [][Next]_vars

NextRun ==
    \/ StartRun(1)
    \/ OpenStore(0..MaxScenes)
    \/ Extract(RunOutputs)
    \/ Statements

SpecRun == Init /\ [][NextRun]_vars

(***************************************************************************)
(* Properties.                                                             *)
(***************************************************************************)
\* the container at save_data_file_path holds exactly the arrays of m
HoldsExactly(h5, m) ==
    /\ DOMAIN h5 = DOMAIN m
    /\ \A n \in DOMAIN m : h5[n].shape = m[n].shape /\ h5[n].dtype = m[n].dtype

\* the substring test, character by character
HasAgents(n) ==
    \E k \in 0..(Len(n) - 6) : \A j \in 1..6 : n[k + j] = AgentsWord[j]

\* C1: after a successful run the names of the arrays in data.h5 are the keys
\* of saved_mats_info in info.pkl and the names the extraction returned, and
\* each entry records the shape and the dtype of the array written under its name
C1_MetadataMatchesArrays ==
    pc = "done" =>
        /\ save_data_file_path \in DOMAIN h5files
        /\ save_info_file_path \in DOMAIN pklfiles
        /\ Len(pklfiles[save_info_file_path]) = 1
        /\ LET h5   == h5files[save_data_file_path]
               info == pklfiles[save_info_file_path][1].saved_mats_info
           IN  /\ DOMAIN h5 = DOMAIN info
               /\ DOMAIN h5 = DOMAIN saved_mats
               /\ \A n \in DOMAIN info :
                     /\ info[n].shape = h5[n].shape
                     /\ info[n].dtype = h5[n].dtype

C1_Witness ==
    /\ pc = "done"
    /\ Cardinality(DOMAIN h5files[save_data_file_path]) = 2
    /\ \E n, m \in DOMAIN saved_mats :
          /\ saved_mats[n].shape # saved_mats[m].shape
          /\ saved_mats[n].dtype # saved_mats[m].dtype

C3_LastRunOnly ==
    (/\ pc = "done"
     /\ save_data_file_path \in DOMAIN fs0.h5files
     /\ save_info_file_path \in DOMAIN fs0.pklfiles
     /\ Len(fs0.pklfiles[save_info_file_path]) = 1)
    =>
        /\ save_data_file_path \in DOMAIN h5files
        /\ save_info_file_path \in DOMAIN pklfiles
        /\ HoldsExactly(h5files[save_data_file_path], saved_mats)
        /\ Len(pklfiles[save_info_file_path]) = 1
        /\ pklfiles[save_info_file_path][1].dataset_props = dataset_props
        /\ pklfiles[save_info_file_path][1].git_version = git_version
        /\ DOMAIN pklfiles[save_info_file_path][1].saved_mats_info = DOMAIN saved_mats

C3_Witness ==
    /\ pc = "done"
    /\ save_data_file_path \in DOMAIN fs0.h5files
    /\ save_info_file_path \in DOMAIN fs0.pklfiles
    /\ Len(fs0.pklfiles[save_info_file_path]) = 1
    /\ \E n \in DOMAIN fs0.h5files[save_data_file_path] : n \notin DOMAIN saved_mats
    /\ \E n \in DOMAIN fs0.pklfiles[save_info_file_path][1].saved_mats_info :
          n \notin DOMAIN saved_mats
    /\ saved_mats # <<>>

\* C4: a run that finds ../dataset_dir.txt missing executes no statement and
\* creates no directory: it stops at line 30
C4_NoDirWithoutDatasetRoot ==
    (pc # "start" /\ ~dataset_dir_txt) =>
        /\ dirs = fs0.dirs
        /\ executed = {}
        /\ pc \in {"read_dataset_path", "aborted"}
        /\ pc = "aborted" => abortAt = "read_dataset_path"

C4_Witness ==
    /\ pc = "aborted"
    /\ error = "FileNotFoundError"
    /\ ~dataset_dir_txt
    /\ save_folder \notin dirs

\* C5: when source_name is no key of the loaded configuration the run stops
\* at line 69: the configuration is loaded, the store is not opened, and no
\* file is created or changed
C5_MissingSourceAborts ==
    ("load_config" \in executed /\ args.source_name \notin DOMAIN cfg) =>
        /\ pc \in {"lookup_source", "aborted"}
        /\ pc = "aborted" => abortAt = "lookup_source"
        /\ "open_store" \notin executed
        /\ touched = {}
        /\ h5files = fs0.h5files
        /\ pklfiles = fs0.pklfiles

C5_Witness ==
    /\ pc = "aborted"
    /\ error = "KeyError"
    /\ "load_config" \in executed
    /\ args.source_name \notin DOMAIN cfg

\* C6: the path setup raises no error, whatever directories exist; after it
\* AVSG_Data/l5kit_data_<config_file_name>_<source_name> exists; a target
\* that existed is kept with its files and announced; and the same pair of
\* arguments gives the same path in every run
C6_PathSetup ==
    /\ (pc = "aborted" /\ abortAt \in {"mkdir_save_folder", "mkdir_save_dir"})
          => error = "KeyboardInterrupt"
    /\ "mkdir_save_dir" \in executed =>
          /\ save_folder \in dirs
          /\ save_dir_path \in dirs
          /\ save_dir_path =
                save_folder \o <<"/">> \o prefix \o args.config_file_name
                            \o <<"_">> \o args.source_name
          /\ warned <=> save_dir_path \in fs0.dirs
    /\ pc = After("mkdir_save_dir") =>
          /\ h5files = fs0.h5files
          /\ pklfiles = fs0.pklfiles
    /\ \A p, q \in seen : p[1] = q[1] => p[2] = q[2]

C6_Witness ==
    /\ pc = "load_config"
    /\ "mkdir_save_dir" \in executed
    /\ save_dir_path \in fs0.dirs
    /\ save_data_file_path \in DOMAIN h5files
    /\ warned

\* C7: an entry's entity is "agents" exactly when its name contains "agents",
\* and "map" otherwise
C7_EntityTag ==
    /\ \A n \in DOMAIN saved_mats_info :
          /\ saved_mats_info[n].entity \in {"agents", "map"}
          /\ saved_mats_info[n].entity = "agents" <=> HasAgents(n)
    /\ \A f \in DOMAIN pklfiles : \A i \in 1..Len(pklfiles[f]) :
          \A n \in DOMAIN pklfiles[f][i].saved_mats_info :
             /\ pklfiles[f][i].saved_mats_info[n].entity \in {"agents", "map"}
             /\ pklfiles[f][i].saved_mats_info[n].entity = "agents" <=> HasAgents(n)

C7_Witness ==
    /\ pc = "done"
    /\ DOMAIN pklfiles[save_info_file_path][1].saved_mats_info = {n_agents, agent_types}
    /\ pklfiles[save_info_file_path][1].saved_mats_info[n_agents].entity = "agents"
    /\ pklfiles[save_info_file_path][1].saved_mats_info[agent_types].entity = "map"

\* C8: the summary reports dataset_props['n_scenes'] as the valid count and
\* the number of scene indices as the total; the indices are 0..N-1, each
\* once, N the scene count of the store, whatever n_scenes was reassigned to;
\* a store of 5 scenes with n_scenes 3 prints 3 of 5
C8_Summary ==
    pc = "done" =>
        /\ Len(summary) = 1
        /\ summary[1].valid = dataset_props.n_scenes
        /\ summary[1].total = Len(scene_indices)
        /\ summary[1].total = dataset_zarr.scenes
        /\ summary[1].path = save_dir_path
        /\ \A k \in 0..(dataset_zarr.scenes - 1) :
              Cardinality({i \in 1..Len(scene_indices) : scene_indices[i] = k}) = 1
        /\ \A i \in 1..Len(scene_indices) : scene_indices[i] = i - 1
        /\ (dataset_zarr.scenes = 5 /\ dataset_props.n_scenes = 3) =>
              (summary[1].valid = 3 /\ summary[1].total = 5)

C8_Witness ==
    /\ pc = "done"
    /\ dataset_zarr.scenes = 5
    /\ dataset_props.n_scenes = 3
    /\ n_scenes = 3
    /\ summary[1].valid = 3
    /\ summary[1].total = 5

\* C9: a run aborted by the failure of git describe has created, truncated
\* and written no file: the query runs after the extraction and before the
\* container is opened
C9_GitFailureWritesNothing ==
    (pc = "aborted" /\ error = "CalledProcessError") =>
        /\ touched = {}
        /\ h5files = fs0.h5files
        /\ pklfiles = fs0.pklfiles
        /\ "extract" \in executed
        /\ "open_h5" \notin executed

C9_Witness ==
    /\ pc = "aborted"
    /\ error = "CalledProcessError"
    /\ save_data_file_path \in DOMAIN h5files
    /\ h5files[save_data_file_path] # <<>>
    /\ save_info_file_path \in DOMAIN pklfiles
    /\ Len(pklfiles[save_info_file_path]) = 1

\* C10: info.pkl is opened only after data.h5 is written and closed: a run
\* has touched nothing, data.h5 alone, or both; and a run aborted between
\* the two writes leaves its complete data.h5 beside the info.pkl it found
C10_InfoAfterData ==
    /\ touched \in {{}, {save_data_file_path}, {save_data_file_path, save_info_file_path}}
    /\ save_info_file_path \in touched =>
          /\ "close_h5" \in executed
          /\ save_data_file_path \in DOMAIN h5files
          /\ HoldsExactly(h5files[save_data_file_path], saved_mats)
    /\ (pc = "aborted" /\ abortAt = "open_pkl") =>
          /\ touched = {save_data_file_path}
          /\ save_data_file_path \in DOMAIN h5files
          /\ HoldsExactly(h5files[save_data_file_path], saved_mats)
          /\ pklfiles = fs0.pklfiles

C10_Witness ==
    /\ pc = "aborted"
    /\ abortAt = "open_pkl"
    /\ save_info_file_path \in DOMAIN pklfiles
    /\ Len(pklfiles[save_info_file_path]) = 1
    /\ DOMAIN pklfiles[save_info_file_path][1].saved_mats_info # DOMAIN h5files[save_data_file_path]

====
